---- MODULE Spec2Model ----
(***************************************************************************)
(* A model of src/src/graph.rs: the tree type Graph (new, add, to_string), *)
(* the reader/writer ports (from_reader, write_to_str), the incidence      *)
(* matrix builder (IncidenceMatrix::new and its three helpers) and the     *)
(* matrix writer (GraphIncidenceMatrixWriter::write).                      *)
(*                                                                         *)
(* A Rust String is a sequence of one-character strings, so that           *)
(* formatting, concatenation and starts_with are computed as the code      *)
(* computes them.  A Graph is a record [value, nodes]; a Result is         *)
(* [ok |-> TRUE, val |-> x] or [ok |-> FALSE, err |-> e].                   *)
(***************************************************************************)
EXTENDS Integers, Sequences, FiniteSets, TLC

VARIABLES locals, created, pc, last, ret_ref, arg, ret, matrix, port_log, stub_ok

vars == <<locals, created, pc, last, ret_ref, arg, ret, matrix, port_log, stub_ok>>

\* The u8 values the general specification gives to Graph::new: 1 is a
\* proper textual prefix of 12, and values may repeat.
Values == {1, 2, 12}

\* The number of Graph::new calls of one run of the general specification.
MaxNodes == 4

\* The number of locals tests::fill_the_graph creates (g, a, b, c, d).
FillLocals == 5

\* The source texts handed to from_reader ("" in stub_test_reader).
Sources == {<<>>, <<"x">>}

-----------------------------------------------------------------------------
\* Strings

Digits == <<"0", "1", "2", "3", "4", "5", "6", "7", "8", "9">>

RECURSIVE u8_to_string(_)
\* Display for u8: the decimal text, no sign, no leading zeros.
u8_to_string(n) ==
    IF n < 10 THEN <<Digits[n + 1]>>
    ELSE u8_to_string(n \div 10) \o <<Digits[(n % 10) + 1]>>

\* str::starts_with(&self, pat: &String)
starts_with(s, p) == Len(p) <= Len(s) /\ SubSeq(s, 1, Len(p)) = p

\* format!("{}-{}", a, b)
format_edge(a, b) == u8_to_string(a) \o <<"-">> \o u8_to_string(b)

-----------------------------------------------------------------------------
\* Graph

Graph_new(value) == [value |-> value, nodes |-> <<>>]

\* Graph::add with the child inserted at the front instead of pushed
Graph_add_front(self, g) == [self EXCEPT !.nodes = <<g>> \o @]

\* self after self.nodes.push(g); the returned &mut Self refers to self.
Graph_add(self, g) == [self EXCEPT !.nodes = Append(@, g)]

RECURSIVE Graph_to_string(_)
RECURSIVE to_string_nodes(_, _)
\* the for_each of to_string: push_str of every child's text, in order
to_string_nodes(nodes, k) ==
    IF k > Len(nodes) THEN <<>>
    ELSE Graph_to_string(nodes[k]) \o to_string_nodes(nodes, k + 1)

\* to_string without the final push_str("} ")
Graph_to_string_unclosed(g) ==
    u8_to_string(g.value) \o <<" ", "{", " ">> \o to_string_nodes(g.nodes, 1)

\* to_string with format!("{} ", ..) and no braces at all
Graph_to_string_unbraced(g) ==
    u8_to_string(g.value) \o <<" ">> \o to_string_nodes(g.nodes, 1)

Graph_to_string(g) ==
    u8_to_string(g.value) \o <<" ", "{", " ">>
        \o to_string_nodes(g.nodes, 1)
        \o <<"}", " ">>

-----------------------------------------------------------------------------
\* IncidenceMatrix

RECURSIVE get_header_recursively(_)
RECURSIVE header_of_nodes(_, _)
\* the map at lines 90-94: one label per direct child, in child order
edge_labels(g) == [k \in 1..Len(g.nodes) |-> format_edge(g.value, g.nodes[k].value)]

\* the loop at lines 96-98: append every child's own header, in child order
header_of_nodes(nodes, k) ==
    IF k > Len(nodes) THEN <<>>
    ELSE get_header_recursively(nodes[k]) \o header_of_nodes(nodes, k + 1)

\* the header without the loop at lines 96-98
get_header_direct_only(g) == edge_labels(g)

RECURSIVE header_interleaved(_, _)
header_interleaved(g, k) ==
    IF k > Len(g.nodes) THEN <<>>
    ELSE <<format_edge(g.value, g.nodes[k].value)>>
            \o get_header_recursively(g.nodes[k])
            \o header_interleaved(g, k + 1)

\* the header with each child's labels emitted right after the edge to it
get_header_interleaved(g) == header_interleaved(g, 1)

get_header_recursively(g) == edge_labels(g) \o header_of_nodes(g.nodes, 1)

RECURSIVE get_vertices_list(_)
RECURSIVE vertices_of_nodes(_, _)
\* the for_each at lines 127-129
vertices_of_nodes(nodes, k) ==
    IF k > Len(nodes) THEN <<>>
    ELSE get_vertices_list(nodes[k]) \o vertices_of_nodes(nodes, k + 1)

\* the vertices with the node's own value pushed after its children's
get_vertices_list_postorder(g) == vertices_of_nodes(g.nodes, 1) \o <<g.value>>

get_vertices_list(g) == <<g.value>> \o vertices_of_nodes(g.nodes, 1)

\* str::ends_with
ends_with(s, p) == Len(p) <= Len(s) /\ SubSeq(s, Len(s) - Len(p) + 1, Len(s)) = p

\* the cell with ends_with in place of starts_with
cell_ends_with(value, column) == ends_with(column, u8_to_string(value))

\* line 114: column.starts_with(&values[i].to_string())
cell(value, column) == starts_with(column, u8_to_string(value))

\* the rows with the first column of the header skipped
get_raw_skip_first(g, header) ==
    LET values == get_vertices_list(g)
    IN  [i \in 1..Len(values) |->
            [j \in 1..(Len(header) - 1) |-> cell(values[i], header[j + 1])]]

get_raw_recursively(g, header) ==
    LET values == get_vertices_list(g)
    IN  [i \in 1..Len(values) |-> [j \in 1..Len(header) |-> cell(values[i], header[j])]]

IncidenceMatrix_new(g) ==
    LET header == get_header_recursively(g)
    IN  [header |-> header, raw |-> get_raw_recursively(g, header)]

\* ---- the derived Debug of IncidenceMatrix under {:#?} ----

Indent(d) == [k \in 1..(4 * d) |-> " "]

RECURSIVE Flatten(_, _)
\* the concatenation of the strings ss[k..]
Flatten(ss, k) == IF k > Len(ss) THEN <<>> ELSE ss[k] \o Flatten(ss, k + 1)

\* DebugList in pretty mode: "[]" when empty, else one entry per line, each
\* indented one level deeper and followed by a comma.
debug_list(entries, d) ==
    IF Len(entries) = 0 THEN <<"[", "]">>
    ELSE <<"[", "\n">>
            \o Flatten([k \in 1..Len(entries) |->
                          Indent(d + 1) \o entries[k] \o <<",", "\n">>], 1)
            \o Indent(d) \o <<"]">>

\* Debug for String: the text in double quotes (a label holds digits and '-'
\* only, so nothing is escaped).
debug_string(s) == <<"\"">> \o s \o <<"\"">>

debug_bool(b) == IF b THEN <<"t", "r", "u", "e">> ELSE <<"f", "a", "l", "s", "e">>

debug_header(header) == debug_list([k \in 1..Len(header) |-> debug_string(header[k])], 1)

debug_row(row, d) == debug_list([k \in 1..Len(row) |-> debug_bool(row[k])], d)

debug_raw(raw) == debug_list([k \in 1..Len(raw) |-> debug_row(raw[k], 2)], 1)

\* format!("{:#?}", m)
IncidenceMatrix_debug(m) ==
    <<"I", "n", "c", "i", "d", "e", "n", "c", "e", "M", "a", "t", "r", "i", "x", " ", "{", "\n">>
        \o Indent(1) \o <<"h", "e", "a", "d", "e", "r", ":", " ">>
        \o debug_header(m.header) \o <<",", "\n">>
        \o Indent(1) \o <<"r", "a", "w", ":", " ">>
        \o debug_raw(m.raw) \o <<",", "\n">>
        \o <<"}">>

-----------------------------------------------------------------------------
\* Results, readers and writers

Ok(x) == [ok |-> TRUE, val |-> x]

Err(e) == [ok |-> FALSE, err |-> e]

\* anyhow!("Should return error by design, but not throw")
StubError == "Should return error by design, but not throw"

\* GraphIncidenceMatrixWriter::write
GraphIncidenceMatrixWriter_write(graph) == Ok(IncidenceMatrix_debug(IncidenceMatrix_new(graph)))

\* A writer is [kind |-> "matrix"], [kind |-> "stub"] or a mock whose returning
\* closure ignores its argument and writes a captured graph (mock_test_writer).
\* writer_write is the value writer.write(graph) returns.
writer_write(writer, graph) ==
    CASE writer.kind = "matrix" -> GraphIncidenceMatrixWriter_write(graph)
      [] writer.kind = "stub" -> Err(StubError)
      [] writer.kind = "mock" -> GraphIncidenceMatrixWriter_write(writer.captured)

\* A reader is the stub (always Err) or a mock whose returning closure ignores
\* the text and returns Ok of a captured graph (mock_test_reader).
reader_read(reader, src) ==
    CASE reader.kind = "stub" -> Err(StubError)
      [] reader.kind = "mock" -> Ok(reader.captured)

\* One call of a port's method, as the port saw it.
PortCall(port, input, result) == [port |-> port, input |-> input, result |-> result]

\* Graph::write_to_str: what it returns and the calls it makes on the writer
Graph_write_to_str(self, writer) ==
    LET r == writer_write(writer, self)
    IN  [ret |-> r, calls |-> <<PortCall("writer", self, r)>>]

\* from_reader with the reader's Err replaced by a default graph
Graph_from_reader_or_default(reader, src) ==
    LET r == reader_read(reader, src)
    IN  [ret |-> IF r.ok THEN r ELSE Ok(Graph_new(0)),
         calls |-> <<PortCall("reader", src, r)>>]

\* Graph::from_reader: what it returns and the calls it makes on the reader
Graph_from_reader(reader, src) ==
    LET r == reader_read(reader, src)
    IN  [ret |-> r, calls |-> <<PortCall("reader", src, r)>>]

-----------------------------------------------------------------------------
\* State

NoCall == [op |-> "none", a |-> 0, b |-> 0]

Init ==
    /\ locals = <<>>
    /\ created = 0
    /\ pc = "build"
    /\ last = NoCall
    /\ ret_ref = 0
    /\ arg = <<>>
    /\ ret = <<>>
    /\ matrix = <<>>
    /\ port_log = <<>>
    /\ stub_ok = FALSE

\* s without its j-th element: the local that was moved out of
Remove(s, j) == SubSeq(s, 1, j - 1) \o SubSeq(s, j + 1, Len(s))

\* let x = Graph::new(v);
New(v) ==
    /\ pc = "build"
    /\ locals' = Append(locals, Graph_new(v))
    /\ created' = created + 1
    /\ last' = [op |-> "new", a |-> v, b |-> 0]
    /\ ret_ref' = 0
    /\ UNCHANGED <<pc, arg, ret, matrix, port_log, stub_ok>>

\* locals[i].add(locals[j]): locals[j] is moved into locals[i]
AddTo(i, j) ==
    /\ pc = "build"
    /\ i \in 1..Len(locals)
    /\ j \in 1..Len(locals)
    /\ i # j
    /\ locals' = Remove([locals EXCEPT ![i] = Graph_add(locals[i], locals[j])], j)
    /\ last' = [op |-> "add", a |-> i, b |-> j]
    /\ ret_ref' = IF j < i THEN i - 1 ELSE i
    /\ UNCHANGED <<created, pc, arg, ret, matrix, port_log, stub_ok>>

\* x.add(y);
Add == \E i \in 1..Len(locals), j \in 1..Len(locals) : ret_ref = 0 /\ AddTo(i, j)

\* x.add(y).add(z): the second add is called on the reference the first returned
AddChained == \E j \in 1..Len(locals) : ret_ref # 0 /\ AddTo(ret_ref, j)

\* the end of the statement: the returned reference is dropped
EndStatement ==
    /\ pc = "build"
    /\ ret_ref # 0
    /\ ret_ref' = 0
    /\ UNCHANGED <<locals, created, pc, last, arg, ret, matrix, port_log, stub_ok>>

\* locals[i].to_string()
CallToString ==
    \E i \in 1..Len(locals) :
        /\ pc = "build"
        /\ ret_ref = 0
        /\ pc' = "done"
        /\ last' = [op |-> "to_string", a |-> i, b |-> 0]
        /\ arg' = <<locals[i]>>
        /\ ret' = <<Graph_to_string(locals[i])>>
        /\ UNCHANGED <<locals, created, ret_ref, matrix, port_log, stub_ok>>

\* IncidenceMatrix::new(&locals[i])
NewMatrix ==
    \E i \in 1..Len(locals) :
        /\ pc = "build"
        /\ ret_ref = 0
        /\ pc' = "done"
        /\ last' = [op |-> "matrix_new", a |-> i, b |-> 0]
        /\ arg' = <<locals[i]>>
        /\ matrix' = <<IncidenceMatrix_new(locals[i])>>
        /\ ret' = matrix'
        /\ UNCHANGED <<locals, created, ret_ref, port_log, stub_ok>>

Writers == {[kind |-> "matrix"], [kind |-> "stub"]}
               \cup {[kind |-> "mock", captured |-> locals[k]] : k \in 1..Len(locals)}

\* locals[i].write_to_str(&mut writer)
WriteToStr ==
    \E i \in 1..Len(locals), writer \in Writers :
        LET r == Graph_write_to_str(locals[i], writer)
        IN  /\ pc = "build"
            /\ ret_ref = 0
            /\ pc' = "done"
            /\ last' = [op |-> "write_to_str", a |-> i, b |-> 0]
            /\ arg' = <<locals[i]>>
            /\ ret' = <<r.ret>>
            /\ port_log' = port_log \o r.calls
            /\ stub_ok' = (stub_ok \/ (writer.kind = "stub" /\ Len(r.calls) > 0))
            /\ matrix' = IF writer.kind = "matrix" /\ Len(r.calls) > 0
                         THEN <<IncidenceMatrix_new(locals[i])>> ELSE matrix
            /\ UNCHANGED <<locals, created, ret_ref>>

Readers == {[kind |-> "stub"]}
               \cup {[kind |-> "mock", captured |-> locals[k]] : k \in 1..Len(locals)}

\* Graph::from_reader(&mut reader, src)
FromReader ==
    \E reader \in Readers, src \in Sources :
        LET r == Graph_from_reader(reader, src)
        IN  /\ pc = "build"
            /\ ret_ref = 0
            /\ pc' = "done"
            /\ last' = [op |-> "from_reader", a |-> 0, b |-> 0]
            /\ arg' = <<src>>
            /\ ret' = <<r.ret>>
            /\ port_log' = port_log \o r.calls
            /\ stub_ok' = (stub_ok \/ (reader.kind = "stub" /\ Len(r.calls) > 0))
            /\ UNCHANGED <<locals, created, ret_ref, matrix>>

NewAny == \E v \in Values : created < MaxNodes /\ New(v)

\* tests::fill_the_graph creates its locals with the values 1, 2, 3, 4, 5
NewFill == created < FillLocals /\ New(created + 1)

Next ==
    \/ NewAny
    \/ Add
    \/ AddChained
    \/ EndStatement
    \/ CallToString
    \/ NewMatrix
    \/ WriteToStr
    \/ FromReader

Spec == Init /\ [][Next]_vars

\* The locals of tests::fill_the_graph, added to one another in any order.
NextFill ==
    \/ NewFill
    \/ Add
    \/ AddChained
    \/ EndStatement
    \/ CallToString
    \/ NewMatrix
    \/ WriteToStr
    \/ FromReader

SpecFill == Init /\ [][NextFill]_vars

-----------------------------------------------------------------------------
\* What the statements below are stated with: a node is named by its path
\* from the root (the child indices on the way down).

RECURSIVE NodeCount(_)
RECURSIVE CountNodes(_, _)
CountNodes(nodes, k) ==
    IF k > Len(nodes) THEN 0 ELSE NodeCount(nodes[k]) + CountNodes(nodes, k + 1)

\* the number of nodes of g, duplicates of a value counted
NodeCount(g) == 1 + CountNodes(g.nodes, 1)

RECURSIVE NodeAt(_, _)
\* the node of g at path p
NodeAt(g, p) == IF p = <<>> THEN g ELSE NodeAt(g.nodes[Head(p)], Tail(p))

RECURSIVE PreOrder(_, _)
RECURSIVE PreOrderNodes(_, _, _)
PreOrderNodes(g, p, k) ==
    IF k > Len(g.nodes) THEN <<>>
    ELSE PreOrder(g.nodes[k], Append(p, k)) \o PreOrderNodes(g, p, k + 1)

\* the paths of the nodes of g (itself at path p) in depth-first pre-order
PreOrder(g, p) == <<p>> \o PreOrderNodes(g, p, 1)

RECURSIVE Edges(_, _)
RECURSIVE EdgesNodes(_, _, _)
EdgesNodes(g, p, k) ==
    IF k > Len(g.nodes) THEN <<>>
    ELSE Edges(g.nodes[k], Append(p, k)) \o EdgesNodes(g, p, k + 1)

\* the parent-child edges of g (itself at path p): the edges to g's direct
\* children in child order, then every child's edges, in child order
Edges(g, p) ==
    [k \in 1..Len(g.nodes) |-> [parent |-> p, child |-> Append(p, k)]]
        \o EdgesNodes(g, p, 1)

\* the text "<parent value>-<child value>" of edge e of g
LabelOf(g, e) ==
    u8_to_string(NodeAt(g, e.parent).value) \o <<"-">>
        \o u8_to_string(NodeAt(g, e.child).value)

\* p is a proper prefix of q: the node at q is a proper descendant of the node at p
ProperPrefix(p, q) == Len(p) < Len(q) /\ SubSeq(q, 1, Len(p)) = p

\* the position of path p in the pre-order of g
RowOf(g, p) == CHOOSE i \in 1..NodeCount(g) : PreOrder(g, <<>>)[i] = p

\* the bijections of 1..n
Perms(n) == {f \in [1..n -> 1..n] : \A a, b \in 1..n : f[a] = f[b] => a = b}

RECURSIVE Reorderings(_)
\* the trees that differ from g only in the order of some nodes' children
Reorderings(g) ==
    LET n == Len(g.nodes)
        R == [k \in 1..n |-> Reorderings(g.nodes[k])]
        U == UNION {R[k] : k \in 1..n}
        Kids == {f \in [1..n -> U] : \A k \in 1..n : f[k] \in R[k]}
    IN  {[value |-> g.value, nodes |-> [k \in 1..n |-> f[pi[k]]]] :
            f \in Kids, pi \in Perms(n)}

\* a matrix has been built, of the tree G, and it is M
HasMatrix == Len(matrix) = 1

G == arg[1]

M == matrix[1]

\* the tree tests::fill_the_graph returns: 1 -> 2 -> 4 -> {3, 5}
FillTree ==
    [value |-> 1, nodes |->
      << [value |-> 2, nodes |->
           << [value |-> 4, nodes |->
                << [value |-> 3, nodes |-> <<>>],
                   [value |-> 5, nodes |-> <<>>] >>] >>] >>]

\* the matrix of FillTree as the claim and the test's text give it
FillMatrix ==
    [header |-> << <<"1", "-", "2">>, <<"2", "-", "4">>,
                   <<"4", "-", "3">>, <<"4", "-", "5">> >>,
     raw |-> << <<TRUE, FALSE, FALSE, FALSE>>,
                <<FALSE, TRUE, FALSE, FALSE>>,
                <<FALSE, FALSE, TRUE, TRUE>>,
                <<FALSE, FALSE, FALSE, FALSE>>,
                <<FALSE, FALSE, FALSE, FALSE>> >>]

\* the text tests::mock_test_writer expects (graph.rs lines 200-239)
FillDump ==
    << "I", "n", "c", "i", "d", "e", "n", "c", "e", "M", "a", "t", "r", "i",
       "x", " ", "{", "\n", " ", " ", " ", " ", "h", "e", "a", "d", "e", "r",
       ":", " ", "[", "\n", " ", " ", " ", " ", " ", " ", " ", " ", "\"",
       "1", "-", "2", "\"", ",", "\n", " ", " ", " ", " ", " ", " ", " ",
       " ", "\"", "2", "-", "4", "\"", ",", "\n", " ", " ", " ", " ", " ",
       " ", " ", " ", "\"", "4", "-", "3", "\"", ",", "\n", " ", " ", " ",
       " ", " ", " ", " ", " ", "\"", "4", "-", "5", "\"", ",", "\n", " ",
       " ", " ", " ", "]", ",", "\n", " ", " ", " ", " ", "r", "a", "w", ":",
       " ", "[", "\n", " ", " ", " ", " ", " ", " ", " ", " ", "[", "\n",
       " ", " ", " ", " ", " ", " ", " ", " ", " ", " ", " ", " ", "t", "r",
       "u", "e", ",", "\n", " ", " ", " ", " ", " ", " ", " ", " ", " ", " ",
       " ", " ", "f", "a", "l", "s", "e", ",", "\n", " ", " ", " ", " ", " ",
       " ", " ", " ", " ", " ", " ", " ", "f", "a", "l", "s", "e", ",", "\n",
       " ", " ", " ", " ", " ", " ", " ", " ", " ", " ", " ", " ", "f", "a",
       "l", "s", "e", ",", "\n", " ", " ", " ", " ", " ", " ", " ", " ", "]",
       ",", "\n", " ", " ", " ", " ", " ", " ", " ", " ", "[", "\n", " ",
       " ", " ", " ", " ", " ", " ", " ", " ", " ", " ", " ", "f", "a", "l",
       "s", "e", ",", "\n", " ", " ", " ", " ", " ", " ", " ", " ", " ", " ",
       " ", " ", "t", "r", "u", "e", ",", "\n", " ", " ", " ", " ", " ", " ",
       " ", " ", " ", " ", " ", " ", "f", "a", "l", "s", "e", ",", "\n", " ",
       " ", " ", " ", " ", " ", " ", " ", " ", " ", " ", " ", "f", "a", "l",
       "s", "e", ",", "\n", " ", " ", " ", " ", " ", " ", " ", " ", "]", ",",
       "\n", " ", " ", " ", " ", " ", " ", " ", " ", "[", "\n", " ", " ",
       " ", " ", " ", " ", " ", " ", " ", " ", " ", " ", "f", "a", "l", "s",
       "e", ",", "\n", " ", " ", " ", " ", " ", " ", " ", " ", " ", " ", " ",
       " ", "f", "a", "l", "s", "e", ",", "\n", " ", " ", " ", " ", " ", " ",
       " ", " ", " ", " ", " ", " ", "t", "r", "u", "e", ",", "\n", " ", " ",
       " ", " ", " ", " ", " ", " ", " ", " ", " ", " ", "t", "r", "u", "e",
       ",", "\n", " ", " ", " ", " ", " ", " ", " ", " ", "]", ",", "\n",
       " ", " ", " ", " ", " ", " ", " ", " ", "[", "\n", " ", " ", " ", " ",
       " ", " ", " ", " ", " ", " ", " ", " ", "f", "a", "l", "s", "e", ",",
       "\n", " ", " ", " ", " ", " ", " ", " ", " ", " ", " ", " ", " ", "f",
       "a", "l", "s", "e", ",", "\n", " ", " ", " ", " ", " ", " ", " ", " ",
       " ", " ", " ", " ", "f", "a", "l", "s", "e", ",", "\n", " ", " ", " ",
       " ", " ", " ", " ", " ", " ", " ", " ", " ", "f", "a", "l", "s", "e",
       ",", "\n", " ", " ", " ", " ", " ", " ", " ", " ", "]", ",", "\n",
       " ", " ", " ", " ", " ", " ", " ", " ", "[", "\n", " ", " ", " ", " ",
       " ", " ", " ", " ", " ", " ", " ", " ", "f", "a", "l", "s", "e", ",",
       "\n", " ", " ", " ", " ", " ", " ", " ", " ", " ", " ", " ", " ", "f",
       "a", "l", "s", "e", ",", "\n", " ", " ", " ", " ", " ", " ", " ", " ",
       " ", " ", " ", " ", "f", "a", "l", "s", "e", ",", "\n", " ", " ", " ",
       " ", " ", " ", " ", " ", " ", " ", " ", " ", "f", "a", "l", "s", "e",
       ",", "\n", " ", " ", " ", " ", " ", " ", " ", " ", "]", ",", "\n",
       " ", " ", " ", " ", "]", ",", "\n", "}" >>

\* the text tests::graph_to_string_test expects (graph.rs line 263)
FillText ==
    << "1", " ", "{", " ", "2", " ", "{", " ", "4", " ", "{", " ", "3", " ",
       "{", " ", "}", " ", "5", " ", "{", " ", "}", " ", "}", " ", "}", " ",
       "}", " " >>

-----------------------------------------------------------------------------
\* Statements

\* C1: in the matrix of every tree, raw[i][j] is true iff header[j] starts
\* with the decimal text of the i-th pre-order value followed by '-', that
\* is, iff that value is the value of the parent of the edge of column j.
C1_CellIffParentValue ==
    HasMatrix =>
        LET nodes == PreOrder(G, <<>>)
            edges == Edges(G, <<>>)
        IN  \A i \in 1..Len(M.raw) : \A j \in 1..Len(M.header) :
                LET v == NodeAt(G, nodes[i]).value
                IN  /\ M.raw[i][j] = starts_with(M.header[j], u8_to_string(v) \o <<"-">>)
                    /\ M.raw[i][j] = (v = NodeAt(G, edges[j].parent).value)

\* C2: the matrix of a tree has one row per node and one header entry per
\* node but the root.
C2_RowAndHeaderCounts ==
    HasMatrix =>
        /\ Len(M.raw) = NodeCount(G)
        /\ Len(M.header) = NodeCount(G) - 1

\* a matrix of a tree of depth two in which a value occurs twice
C2_Witness ==
    /\ HasMatrix
    /\ NodeCount(G) >= 3
    /\ \E p \in {<<1>>, <<1, 1>>} :
          /\ Len(G.nodes) = 1
          /\ Len(G.nodes[1].nodes) >= 1
          /\ NodeAt(G, p).value = G.value
    /\ Len(M.raw) = NodeCount(G)

\* C3: every row of the matrix is as long as the header; a single node
\* gives an empty header and exactly one row, of length zero.
C3_RowLengths ==
    HasMatrix =>
        /\ \A i \in 1..Len(M.raw) : Len(M.raw[i]) = Len(M.header)
        /\ (Len(G.nodes) = 0 => M.header = <<>> /\ M.raw = << <<>> >>)

\* the matrix of a single node, and one row of it
C3_Witness ==
    /\ HasMatrix
    /\ Len(G.nodes) = 0
    /\ Len(M.raw) = 1
    /\ Len(M.raw[1]) = 0

\* C4: the header is the labels of the root's edges to its children, in
\* child order, followed by every child's header, in child order; so the
\* labels of a node's own edges all come before the label of any edge whose
\* parent is a proper descendant of that node.
C4_HeaderOrder ==
    HasMatrix =>
        LET edges == Edges(G, <<>>)
        IN  /\ M.header = [j \in 1..Len(edges) |-> LabelOf(G, edges[j])]
            /\ M.header =
                 [k \in 1..Len(G.nodes) |->
                     u8_to_string(G.value) \o <<"-">> \o u8_to_string(G.nodes[k].value)]
                 \o Flatten([k \in 1..Len(G.nodes) |->
                                IncidenceMatrix_new(G.nodes[k]).header], 1)
            /\ \A j, k \in 1..Len(edges) :
                 ProperPrefix(edges[j].parent, edges[k].parent) => j < k

\* a matrix of a tree whose root has two children, the first with a child
C4_Witness ==
    /\ HasMatrix
    /\ Len(G.nodes) = 2
    /\ Len(G.nodes[1].nodes) = 1
    /\ Len(M.header) = 3

\* C5: the matrix of the tree 1 -> 2 -> 4 -> {3, 5} has the header
\* "1-2", "2-4", "4-3", "4-5" and the five rows of the test, and
\* GraphIncidenceMatrixWriter::write returns Ok of the test's text, which is
\* the rendering of that matrix.
C5_FillMatrix ==
    (HasMatrix /\ G = FillTree) =>
        /\ M = FillMatrix
        /\ last.op = "write_to_str" =>
              /\ ret = <<Ok(FillDump)>>
              /\ FillDump = IncidenceMatrix_debug(FillMatrix)

\* the matrix writer has written the tree of fill_the_graph
C5_Witness ==
    /\ HasMatrix
    /\ G = FillTree
    /\ last.op = "write_to_str"
    /\ ret[1].ok

\* C6: to_string of a node is "<v> { ", then the to_string of every child
\* in child order, then "} "; a leaf gives "<v> { } " and the tree
\* 1 -> 2 -> 4 -> {3, 5} gives "1 { 2 { 4 { 3 { } 5 { } } } } ".
C6_ToStringShape ==
    last.op = "to_string" =>
        /\ ret[1] = u8_to_string(G.value) \o <<" ", "{", " ">>
                      \o Flatten([k \in 1..Len(G.nodes) |-> Graph_to_string(G.nodes[k])], 1)
                      \o <<"}", " ">>
        /\ Len(G.nodes) = 0 => ret[1] = u8_to_string(G.value) \o <<" ", "{", " ", "}", " ">>
        /\ G = FillTree => ret[1] = FillText

\* to_string has been called on the tree of fill_the_graph
C6_Witness ==
    /\ last.op = "to_string"
    /\ G = FillTree
    /\ ret = <<FillText>>

\* C7: from_reader calls reader.read once, with src, and write_to_str calls
\* writer.write once, with the graph; each returns what that call returned,
\* an Err as the same Err and an Ok as the same Ok.
C7_ResultPassedThrough ==
    /\ last.op = "from_reader" =>
          /\ Len(port_log) = 1
          /\ port_log[1].port = "reader"
          /\ port_log[1].input = arg[1]
          /\ ret[1] = port_log[1].result
    /\ last.op = "write_to_str" =>
          /\ Len(port_log) = 1
          /\ port_log[1].port = "writer"
          /\ port_log[1].input = arg[1]
          /\ ret[1] = port_log[1].result

\* from_reader has returned the Err of a reader that was called once
C7_Witness ==
    /\ last.op = "from_reader"
    /\ Len(port_log) = 1
    /\ ~port_log[1].result.ok
    /\ ~ret[1].ok

\* C8: two unequal trees that differ only in the order of some node's
\* children have different to_string texts.
C8_InjectiveOverChildOrder ==
    last.op = "to_string" =>
        \A t \in Reorderings(G) : t # G => Graph_to_string(t) # ret[1]

\* to_string has been called on a tree that has an unequal reordering below
\* the root
C8_Witness ==
    /\ last.op = "to_string"
    /\ NodeCount(G) >= 4
    /\ \E t \in Reorderings(G) : t # G /\ t.nodes[1] # G.nodes[1]

\* C9: Graph::new(v) gives a node of value v without children; add(child)
\* appends child as the last child, leaves the node's value, its earlier
\* children and every other local as they were, and returns the node it was
\* called on, so that a chained add appends to that same node.
C9_NewAndAddFrame ==
    [][/\ (last'.op = "new" /\ Len(locals') = Len(locals) + 1) =>
             locals' = Append(locals, [value |-> last'.a, nodes |-> <<>>])
       /\ (last'.op = "add" /\ Len(locals') = Len(locals) - 1) =>
             LET i == last'.a
                 j == last'.b
                 t == ret_ref'
             IN  /\ locals'[t].value = locals[i].value
                 /\ locals'[t].nodes = Append(locals[i].nodes, locals[j])
                 /\ Remove(locals', t) = Remove(Remove(locals, IF i < j THEN j ELSE i),
                                                IF i < j THEN i ELSE j)
                 /\ (ret_ref # 0 =>
                        locals'[t].nodes = Append(locals[ret_ref].nodes, locals[j]))
      ]_vars

\* a chained add has appended a second child to the node of the first add
C9_Witness ==
    /\ last.op = "add"
    /\ ret_ref # 0
    /\ Len(locals[ret_ref].nodes) >= 2
    /\ locals[ret_ref].nodes[1] # locals[ret_ref].nodes[2]

\* C10: every column of the matrix has a true entry: the row of the
\* pre-order occurrence of the column's parent node is true in it.
C10_ParentRowMarked ==
    HasMatrix =>
        LET edges == Edges(G, <<>>)
        IN  \A j \in 1..Len(M.header) :
                /\ \E i \in 1..Len(M.raw) : M.raw[i][j]
                /\ M.raw[RowOf(G, edges[j].parent)][j]

\* a matrix with a column whose parent is not the root
C10_Witness ==
    /\ HasMatrix
    /\ Len(M.header) >= 2
    /\ \E j \in 1..Len(M.header) :
          /\ Edges(G, <<>>)[j].parent # <<>>
          /\ M.raw[RowOf(G, Edges(G, <<>>)[j].parent)][j]

====
